---- MODULE Spec2Model ----
(***************************************************************************)
(* RepoSage (repo-sage-action/bot.py): the analyze -> parse -> apply ->    *)
(* publish pipeline of class RepoSage.                                     *)
(*                                                                         *)
(* Three specifications share the module:                                  *)
(*   SpecPatch    the directive loop of implement_changes (Patch Applier)  *)
(*   SpecExtract  the JSON extraction cascade of analyze_file              *)
(*   Spec         one call of run(): thread pool analysis, per-file apply, *)
(*                changelog update, direct commit or pull request          *)
(* Strings are sequences of one-character strings; a response text is a    *)
(* sequence of lexical tokens.                                             *)
(***************************************************************************)
EXTENDS Integers, Sequences, FiniteSets, TLC

None == "None"
Raised == "Raised"

(***************************************************************************)
(* Bounds of the model.                                                    *)
(***************************************************************************)
MaxContentLen == 3
MaxChanges == 2
MaxSegments == 4
NumFiles == 2
MaxWorkers == 2
MaxFaults == 1
MaxDocLen == 3

Alphabet == {"a", "b"}
StringsUpTo(n) == UNION {[1..k -> Alphabet] : k \in 0..n}
Contents == StringsUpTo(MaxContentLen)
\* Snippets a directive may carry as original_code or improved_code.
Snippets == {<<>>, <<"a">>, <<"b">>, <<"a", "a">>}
PatchDirectives == [original_code : Snippets, improved_code : Snippets]
SeqsUpTo(S, n) == UNION {[1..k -> S] : k \in 0..n}

VARIABLES
    \* implement_changes, the directive loop
    suggested_changes,   \* analysis['suggested_changes']
    next_change,         \* index of the directive the loop handles next
    content,             \* the working copy
    original_content,    \* the snapshot read from the store
    changes_applied,
    patch_result,        \* kind "pending", None, or "changes" (the returned dictionary)
    history              \* working copy and count before each directive handled

pvars == <<suggested_changes, next_change, content, original_content,
           changes_applied, patch_result, history>>

VARIABLES
    \* analyze_file, from the completion call to the return
    response,            \* what call_openrouter_api gives: kind "ok" with a text, or a failure
    extract_result       \* kind "pending", None, Raised, or "result" (with the tier that parsed)

evars == <<response, extract_result>>

VARIABLES
    \* one call of run()
    dry_run,             \* run(dry_run=...)
    direct_commit,       \* run(direct_commit=...)
    use_parallel,        \* RepoSage(use_parallel=...)
    max_workers,         \* run(max_workers=...), the size of the thread pool
    store_strict,        \* the store rejects a write to a branch it does not have
    pc,                  \* where the thread that called run() is
    task,                \* per file: "queued", "running", "done", "collected"
    future,              \* per file: what analyze_file returned
    requests,            \* per file: completion requests sent
    all_analyses,
    next_analysis,       \* index into all_analyses of the apply loop
    changes_list,
    branches,            \* branches the store has
    repo,                \* per branch and path: [present, data]
    writes,              \* every mutating store call issued, in order
    pulls,               \* pull requests opened
    faults_left,         \* store calls that may still fail in transit
    next_commit,         \* index into changes_list of commit_changes_directly
    success_count,
    commit_result        \* what commit_changes_directly returned

rvars == <<dry_run, direct_commit, use_parallel, max_workers, store_strict, pc,
           task, future, requests, all_analyses, next_analysis, changes_list,
           branches, repo, writes, pulls, faults_left, next_commit,
           success_count, commit_result>>

VARIABLES
    \* one call of run_tests()
    t_pc,                \* "idle", "enter", "cloning", "select", "testing", "returned"
    mock_test_run,       \* the mock_test_run attribute: "unset", "pass" or "fail"
    sandbox_env,         \* what the clone and the test command will do
    workspace,           \* the temporary directory: "none", "exists", "deleted"
    test_cmd,            \* the command selected, <<>> before the selection
    test_report          \* kind "pending", "result" (passed, output) or Raised

tvars == <<t_pc, mock_test_run, sandbox_env, workspace, test_cmd, test_report>>

VARIABLES
    \* one call of implement_tests()
    s_pc,                \* "idle", "call", "returned"
    s_file,              \* file_path
    s_changes,           \* suggested_changes
    s_result             \* test_files as returned: kind "pending", "none" (empty) or "tests"

svars == <<s_pc, s_file, s_changes, s_result>>

vars == <<pvars, evars, rvars, tvars, svars>>

(***************************************************************************)
(* Python str operations used by implement_changes.                        *)
(***************************************************************************)

\* `sub in s` for two str values.
StrIn(sub, s) ==
    \E i \in 0..(Len(s) - Len(sub)) : SubSeq(s, i + 1, i + Len(sub)) = sub

\* A replace that stops after the first occurrence (str.replace(old, new, 1)).
RECURSIVE StrReplaceFirst(_, _, _)
StrReplaceFirst(s, old, new) ==
    IF old = <<>> THEN new \o s
    ELSE IF Len(s) < Len(old) THEN s
    ELSE IF SubSeq(s, 1, Len(old)) = old
         THEN new \o SubSeq(s, Len(old) + 1, Len(s))
         ELSE <<Head(s)>> \o StrReplaceFirst(Tail(s), old, new)

\* s.replace(old, new): left-to-right scan, every non-overlapping occurrence;
\* an empty `old` matches before every character and at the end.
RECURSIVE StrReplace(_, _, _)
StrReplace(s, old, new) ==
    IF old = <<>>
    THEN IF s = <<>> THEN new
         ELSE new \o <<Head(s)>> \o StrReplace(Tail(s), old, new)
    ELSE IF Len(s) < Len(old) THEN s
    ELSE IF SubSeq(s, 1, Len(old)) = old
         THEN new \o StrReplace(SubSeq(s, Len(old) + 1, Len(s)), old, new)
         ELSE <<Head(s)>> \o StrReplace(Tail(s), old, new)

(***************************************************************************)
(* Patch Applier: the loop body of implement_changes.                      *)
(***************************************************************************)

\* The guard of the loop body tested against the pristine snapshot instead of
\* the working copy.
ApplyChange_FromOriginal(st, change) ==
    IF "original_code" \in DOMAIN change /\ "improved_code" \in DOMAIN change
    THEN IF StrIn(change.original_code, st.original_content)
         THEN [st EXCEPT !.content = StrReplace(st.content, change.original_code,
                                                change.improved_code),
                         !.changes_applied = st.changes_applied + 1]
         ELSE st
    ELSE st

\* An iteration that counts a directive whose original snippet is not there.
ApplyChange_CountSkipped(st, change) ==
    IF "original_code" \in DOMAIN change /\ "improved_code" \in DOMAIN change
    THEN [st EXCEPT !.content = StrReplace(st.content, change.original_code,
                                           change.improved_code),
                    !.changes_applied = st.changes_applied + 1]
    ELSE st

\* One iteration: st = [content, original_content, changes_applied].
ApplyChange(st, change) ==
    IF "original_code" \in DOMAIN change /\ "improved_code" \in DOMAIN change
    THEN IF StrIn(change.original_code, st.content)
         THEN [st EXCEPT !.content = StrReplace(st.content, change.original_code,
                                                change.improved_code),
                         !.changes_applied = st.changes_applied + 1]
         ELSE st
    ELSE st

\* The whole loop over analysis['suggested_changes'].
RECURSIVE ApplyChanges(_, _)
ApplyChanges(st, changes) ==
    IF changes = <<>> THEN st
    ELSE ApplyChanges(ApplyChange(st, Head(changes)), Tail(changes))

\* The check after the loop: is a change set produced?
ChangeProduced(st) ==
    ~(st.content = st.original_content \/ st.changes_applied = 0)

(***************************************************************************)
(* SpecPatch: implement_changes run on a content and a directive list.     *)
(***************************************************************************)
PatchState == [content |-> content, original_content |-> original_content,
               changes_applied |-> changes_applied]

InitPatch ==
    /\ original_content \in Contents
    /\ content = original_content
    /\ suggested_changes \in SeqsUpTo(PatchDirectives, MaxChanges)
    /\ next_change = 1
    /\ changes_applied = 0
    /\ patch_result = [kind |-> "pending"]
    /\ history = <<>>

\* for change in analysis['suggested_changes']: ...
PatchLoop ==
    /\ patch_result.kind = "pending"
    /\ next_change <= Len(suggested_changes)
    /\ LET st == ApplyChange(PatchState, suggested_changes[next_change])
       IN /\ content' = st.content
          /\ changes_applied' = st.changes_applied
    /\ history' = Append(history, PatchState)
    /\ next_change' = next_change + 1
    /\ UNCHANGED <<suggested_changes, original_content, patch_result>>
    /\ UNCHANGED <<evars, rvars, tvars, svars>>

\* if content == original_content or changes_applied == 0: return None
PatchReturn ==
    /\ patch_result.kind = "pending"
    /\ next_change > Len(suggested_changes)
    /\ patch_result' = IF ChangeProduced(PatchState)
                       THEN [kind |-> "changes",
                             content |-> content,
                             original_content |-> original_content,
                             changes_applied |-> changes_applied]
                       ELSE [kind |-> None]
    /\ UNCHANGED <<suggested_changes, next_change, content, original_content,
                   changes_applied, history>>
    /\ UNCHANGED <<evars, rvars, tvars, svars>>

NextPatch == PatchLoop \/ PatchReturn

\* ---- properties of the Patch Applier ----

\* o occurs in c at position p (1-based); an empty o occurs at 1..Len(c)+1.
OccursAt(c, o, p) ==
    /\ p >= 1
    /\ p + Len(o) - 1 <= Len(c)
    /\ \A j \in 1..Len(o) : c[p + j - 1] = o[j]

Occurs(c, o) == \E p \in 1..(Len(c) + 1) : OccursAt(c, o, p)

\* The occurrences a left-to-right non-overlapping scan takes: an occurrence is
\* taken unless an earlier taken one covers its first character.
TakenStarts(c, o) ==
    LET taken[p \in 1..(Len(c) + 1)] ==
            /\ OccursAt(c, o, p)
            /\ \A q \in 1..(p - 1) : (q + Len(o) > p) => ~taken[q]
    IN {p \in 1..(Len(c) + 1) : taken[p]}

\* r is c with every taken occurrence of o replaced by n and nothing else changed.
IsReplaceAll(c, o, n, r) ==
    LET S == TakenStarts(c, o)
        d == Len(n) - Len(o)
        EndedBefore(j) == Cardinality({p \in S : p + Len(o) <= j})
        Covered(j) == \E p \in S : p <= j /\ j < p + Len(o)
        StartedBefore(p) == Cardinality({q \in S : q < p})
    IN /\ Len(r) = Len(c) + Cardinality(S) * d
       /\ \A j \in 1..Len(c) : ~Covered(j) => r[j + EndedBefore(j) * d] = c[j]
       /\ \A p \in S : \A i \in 1..Len(n) : r[p + StartedBefore(p) * d + i - 1] = n[i]

\* The state the loop was in after handling directive k.
AfterChange(k) == IF k < Len(history) THEN history[k + 1] ELSE PatchState

\* C1: directive k is applied iff its original_code occurs in the working copy
\* left by directives 1..k-1 (whether or not it occurs in the pristine original).
C1_ChainedApplicability ==
    \A k \in 1..Len(history) :
        (AfterChange(k).changes_applied = history[k].changes_applied + 1)
            <=> Occurs(history[k].content, suggested_changes[k].original_code)

\* C1 witness: a directive was applied whose original_code does not occur in
\* the pristine original: an earlier directive created it.
C1_Witness ==
    /\ patch_result.kind = "changes"
    /\ \E k \in 1..Len(history) :
          /\ AfterChange(k).changes_applied = history[k].changes_applied + 1
          /\ ~Occurs(original_content, suggested_changes[k].original_code)
          /\ suggested_changes[k].original_code # <<>>

\* C2: a directive found in the working copy replaces every non-overlapping
\* occurrence and adds exactly one to changes_applied; a directive not found
\* changes neither; no directive raises; the final count is the number of
\* directives found at their turn.
C2_ReplaceAllAndCount ==
    /\ \A k \in 1..Len(history) :
          LET before == history[k]
              after == AfterChange(k)
              d == suggested_changes[k]
          IN IF Occurs(before.content, d.original_code)
             THEN /\ IsReplaceAll(before.content, d.original_code,
                                  d.improved_code, after.content)
                  /\ after.changes_applied = before.changes_applied + 1
             ELSE /\ after.content = before.content
                  /\ after.changes_applied = before.changes_applied
    /\ patch_result.kind # Raised
    /\ patch_result.kind # "pending" =>
          changes_applied =
              Cardinality({k \in 1..Len(history) :
                  Occurs(history[k].content, suggested_changes[k].original_code)})

\* C2 witness: the loop has ended after a directive replaced two occurrences
\* and after another directive was not found.
C2_Witness ==
    /\ patch_result.kind # "pending"
    /\ \E k \in 1..Len(history) :
          /\ suggested_changes[k].original_code # <<>>
          /\ Cardinality(TakenStarts(history[k].content,
                                     suggested_changes[k].original_code)) >= 2
    /\ \E k \in 1..Len(history) :
          ~Occurs(history[k].content, suggested_changes[k].original_code)

\* No directive of the list has an original snippet that occurs in c.
NoneOccurs(c, changes) ==
    \A k \in 1..Len(changes) :
        "original_code" \in DOMAIN changes[k]
           => ~Occurs(c, changes[k].original_code)

\* The directive loop run again on its own output, read back as the snapshot.
AppliedAgain ==
    ApplyChanges([content |-> content, original_content |-> content,
                  changes_applied |-> 0], suggested_changes)

\* C26: for every content and directive list, when no directive's original
\* snippet occurs in the output of the directive loop, running the loop again
\* on that output leaves it unchanged and applies no directive.
C26_SecondPassIsIdle ==
    (patch_result.kind # "pending" /\ NoneOccurs(content, suggested_changes))
    => /\ AppliedAgain.content = content
       /\ AppliedAgain.changes_applied = 0

\* The first pass applied a directive and changed the content, and no original
\* snippet of the list occurs in what it produced.
C26_Witness ==
    /\ patch_result.kind = "changes"
    /\ changes_applied >= 1
    /\ Len(suggested_changes) = MaxChanges
    /\ NoneOccurs(content, suggested_changes)

(***************************************************************************)
(* Change Extractor: the tail of analyze_file.                             *)
(* A response text is a sequence of tokens:                                *)
(*   "F" a ``` fence      "j" the word json     "w" a blank                *)
(*   "{" "}" ":"          "q" a double quote    "1" a digit                *)
(*   "A" the string literal "analysis"          "x" any other character    *)
(***************************************************************************)

\* Number of consecutive blanks of t from position i on.
RECURSIVE WsRun(_, _)
WsRun(t, i) == IF i >= 1 /\ i <= Len(t) /\ t[i] = "w" THEN 1 + WsRun(t, i + 1) ELSE 0

\* t without leading and trailing blanks.
Strip(t) ==
    LET nonws == {i \in 1..Len(t) : t[i] # "w"}
    IN IF nonws = {} THEN <<>>
       ELSE SubSeq(t, CHOOSE i \in nonws : \A k \in nonws : i <= k,
                      CHOOSE i \in nonws : \A k \in nonws : i >= k)

\* JSON grammar over the tokens: a number, a string, or an object with at most
\* one member; blanks are allowed around every value.
IsJsonNumber(s) == Len(s) >= 1 /\ \A i \in 1..Len(s) : s[i] = "1"

IsJsonString(s) ==
    \/ s = <<"A">>
    \/ /\ Len(s) >= 2
       /\ s[1] = "q"
       /\ s[Len(s)] = "q"
       /\ \A i \in 2..(Len(s) - 1) : s[i] \notin {"q", "A"}

RECURSIVE IsJsonValue(_)
IsJsonValue(t) ==
    LET s == Strip(t)
    IN \/ IsJsonNumber(s)
       \/ IsJsonString(s)
       \/ /\ Len(s) >= 2
          /\ s[1] = "{"
          /\ s[Len(s)] = "}"
          /\ LET inner == SubSeq(s, 2, Len(s) - 1)
             IN \/ Strip(inner) = <<>>
                \/ \E k \in 1..Len(inner) :
                      /\ inner[k] = ":"
                      /\ IsJsonString(Strip(SubSeq(inner, 1, k - 1)))
                      /\ IsJsonValue(SubSeq(inner, k + 1, Len(inner)))

\* The value a successful parse yields: the text without insignificant blanks.
RECURSIVE JsonValue(_, _)
JsonValue(t, inString) ==
    IF t = <<>> THEN <<>>
    ELSE IF Head(t) = "q" THEN <<"q">> \o JsonValue(Tail(t), ~inString)
    ELSE IF Head(t) = "w" /\ ~inString THEN JsonValue(Tail(t), inString)
    ELSE <<Head(t)>> \o JsonValue(Tail(t), inString)

\* json.loads: ok with the value, or JSONDecodeError.
json_loads(t) ==
    IF IsJsonValue(t) THEN [ok |-> TRUE, value |-> JsonValue(t, FALSE)]
    ELSE [ok |-> FALSE, value |-> <<>>]

NoMatch == [matched |-> FALSE, group |-> <<>>]

\* Matches of r'```(?:json)?\s*(.+?)\s*```' (DOTALL) that start at fence i:
\* <<tag taken, blanks taken by the first \s*, length of group 1>>.
FenceMatches(t, i) ==
    {x \in BOOLEAN \X (0..Len(t)) \X (1..Len(t)) :
        /\ t[i] = "F"
        /\ x[1] => (i + 1 <= Len(t) /\ t[i + 1] = "j")
        /\ LET a == i + 1 + (IF x[1] THEN 1 ELSE 0)
               g == a + x[2]
               e == g + x[3]
           IN /\ x[2] <= WsRun(t, a)
              /\ e - 1 <= Len(t)
              /\ e + WsRun(t, e) <= Len(t)
              /\ t[e + WsRun(t, e)] = "F"}

\* The order in which the backtracking matcher tries them: the optional tag
\* taken first, the first \s* greedy, group 1 lazy.
TriedBefore(x, y) ==
    \/ x[1] /\ ~y[1]
    \/ x[1] = y[1] /\ x[2] > y[2]
    \/ x[1] = y[1] /\ x[2] = y[2] /\ x[3] <= y[3]

\* re.search(r'```(?:json)?\s*(.+?)\s*```', text, re.DOTALL), group(1).
SearchCodeBlock(t) ==
    LET starts == {i \in 1..Len(t) : FenceMatches(t, i) # {}}
    IN IF starts = {} THEN NoMatch
       ELSE LET i == CHOOSE k \in starts : \A z \in starts : k <= z
                M == FenceMatches(t, i)
                x == CHOOSE y \in M : \A z \in M : TriedBefore(y, z)
                g == i + 1 + (IF x[1] THEN 1 ELSE 0) + x[2]
            IN [matched |-> TRUE, group |-> SubSeq(t, g, g + x[3] - 1)]

\* re.search(r'(\{\s*"analysis".*?\}\s*$)', text, re.DOTALL), group(1).
SearchAnalysisObject(t) ==
    LET starts == {i \in 1..Len(t) :
            /\ t[i] = "{"
            /\ LET a == i + 1 + WsRun(t, i + 1)
               IN /\ a <= Len(t)
                  /\ t[a] = "A"
                  /\ \E c \in (a + 1)..Len(t) :
                        t[c] = "}" /\ \A z \in (c + 1)..Len(t) : t[z] = "w"}
    IN IF starts = {} THEN NoMatch
       ELSE [matched |-> TRUE,
             group |-> SubSeq(t, CHOOSE k \in starts : \A z \in starts : k <= z,
                              Len(t))]

\* re.search(r'(\{.*\})', text, re.DOTALL), group(1): first "{" to last "}".
SearchAnyObject(t) ==
    LET opens == {i \in 1..Len(t) : t[i] = "{"}
        closes == {i \in 1..Len(t) : t[i] = "}"}
    IN IF opens = {} \/ closes = {} THEN NoMatch
       ELSE LET i == CHOOSE k \in opens : \A z \in opens : k <= z
                c == CHOOSE k \in closes : \A z \in closes : k >= z
            IN IF c > i THEN [matched |-> TRUE, group |-> SubSeq(t, i, c)]
               ELSE NoMatch

ExtractOk(n, t) == [kind |-> "result", tier |-> n, analysis |-> json_loads(t).value]
ExtractNone == [kind |-> None, tier |-> 0, analysis |-> <<>>]
ExtractRaised == [kind |-> Raised, tier |-> 0, analysis |-> <<>>]

\* The cascade of analyze_file on analysis_text.
ExtractJson(t) ==
    IF SearchCodeBlock(t).matched /\ json_loads(SearchCodeBlock(t).group).ok
    THEN ExtractOk(1, SearchCodeBlock(t).group)
    ELSE IF SearchAnalysisObject(t).matched
            /\ json_loads(SearchAnalysisObject(t).group).ok
    THEN ExtractOk(2, SearchAnalysisObject(t).group)
    ELSE IF json_loads(t).ok THEN ExtractOk(3, t)
    ELSE IF SearchAnyObject(t).matched /\ json_loads(SearchAnyObject(t).group).ok
    THEN ExtractOk(4, SearchAnyObject(t).group)
    ELSE ExtractNone

\* The try body of analyze_file from the completion call on: an HTTP status
\* other than 200 raises in call_openrouter_api, a reply without
\* choices[0].message.content raises at the subscript.
AnalyzeBody(resp) ==
    IF resp.kind = "ok" THEN ExtractJson(resp.text) ELSE ExtractRaised

\* analyze_file without its outer handler.
OuterExcept_Reraise(outcome) == outcome

\* except Exception as e: ... return None
OuterExcept(outcome) ==
    IF outcome.kind = Raised THEN ExtractNone ELSE outcome

analyze_file(resp) == OuterExcept(AnalyzeBody(resp))

(***************************************************************************)
(* SpecExtract: analyze_file on one response.                              *)
(***************************************************************************)
TextSegments ==
    { <<"x">>, <<"w">>, <<"F">>, <<"j">>, <<"{">>, <<"}">>, <<"1">>,
      <<"{", "A", ":", "1", "}">>,
      <<"{", "A", ":", "q", "F", "q", "}">>,
      <<"{", "q", "x", "q", ":", "1", "}">> }

RECURSIVE Flatten(_)
Flatten(ss) == IF ss = <<>> THEN <<>> ELSE Head(ss) \o Flatten(Tail(ss))

Texts == {Flatten(ss) : ss \in SeqsUpTo(TextSegments, MaxSegments)}

Responses ==
    {[kind |-> "ok", text |-> t] : t \in Texts}
        \cup {[kind |-> "http_error", text |-> <<>>],
              [kind |-> "malformed", text |-> <<>>]}

InitExtract ==
    /\ response \in Responses
    /\ extract_result = [kind |-> "pending", tier |-> 0, analysis |-> <<>>]

AnalyzeFile ==
    /\ extract_result.kind = "pending"
    /\ extract_result' = analyze_file(response)
    /\ UNCHANGED response
    /\ UNCHANGED <<pvars, rvars, tvars, svars>>

NextExtract == AnalyzeFile

\* ---- properties of the Change Extractor ----

\* The text each tier hands to json.loads parses, tier by tier.
TierParses(n, t) ==
    CASE n = 1 -> SearchCodeBlock(t).matched /\ IsJsonValue(SearchCodeBlock(t).group)
      [] n = 2 -> SearchAnalysisObject(t).matched
                    /\ IsJsonValue(SearchAnalysisObject(t).group)
      [] n = 3 -> IsJsonValue(t)
      [] n = 4 -> SearchAnyObject(t).matched /\ IsJsonValue(SearchAnyObject(t).group)

\* No contiguous part of the text is JSON at all.
NoJsonAnywhere(t) ==
    \A i \in 1..Len(t) : \A k \in i..Len(t) : ~IsJsonValue(SubSeq(t, i, k))

\* C5: analyze_file returns an analysis result or None and never raises, for a
\* response text as for a failed completion call; a text from which no tier can
\* parse JSON yields None.
C5_NeverRaises ==
    extract_result.kind # "pending" =>
        /\ extract_result.kind \in {None, "result"}
        /\ response.kind # "ok" => extract_result.kind = None
        /\ (response.kind = "ok" /\ \A n \in 1..4 : ~TierParses(n, response.text))
              => extract_result.kind = None
        /\ (response.kind = "ok" /\ NoJsonAnywhere(response.text))
              => extract_result.kind = None

\* C5 witness: a text with a code block and a brace region, neither of which
\* parses, has been answered with None.
C5_Witness ==
    /\ extract_result.kind = None
    /\ response.kind = "ok"
    /\ SearchCodeBlock(response.text).matched
    /\ SearchAnyObject(response.text).matched

\* The response is one fenced block (optionally tagged json) around valid JSON.
WrappedInFence(t) ==
    /\ Len(t) >= 3
    /\ t[1] = "F"
    /\ t[Len(t)] = "F"
    /\ IsJsonValue(SubSeq(t, IF t[2] = "j" THEN 3 ELSE 2, Len(t) - 1))

FencedContent(t) == SubSeq(t, IF t[2] = "j" THEN 3 ELSE 2, Len(t) - 1)

\* The response is prose (no fence, no brace) followed by a bare JSON object.
ProseThenObject(t) ==
    \E k \in 1..(Len(t) - 1) :
        /\ \A i \in 1..k : t[i] \notin {"F", "{", "}"}
        /\ \E i \in 1..k : t[i] # "w"
        /\ t[k + 1] = "{"
        /\ IsJsonValue(SubSeq(t, k + 1, Len(t)))

\* C6 as claimed: the tiers are tried in order 1, 2, 3, 4 and the first that
\* parses wins; valid JSON wrapped in a fenced block is returned by tier 1 as
\* the parse of the fenced content; prose followed by a bare JSON object is
\* returned by a later tier.
C6_TierOrderAsClaimed ==
    (extract_result.kind # "pending" /\ response.kind = "ok") =>
        LET t == response.text
            parsing == {n \in 1..4 : TierParses(n, t)}
        IN /\ IF parsing = {} THEN extract_result.kind = None
              ELSE /\ extract_result.kind = "result"
                   /\ extract_result.tier \in parsing
                   /\ \A n \in parsing : extract_result.tier <= n
           /\ WrappedInFence(t) =>
                 /\ extract_result.kind = "result"
                 /\ extract_result.tier = 1
                 /\ extract_result.analysis = JsonValue(FencedContent(t), FALSE)
           /\ ProseThenObject(t) =>
                 /\ extract_result.kind = "result"
                 /\ extract_result.tier > 1

(***************************************************************************)
(* The repository store (the PyGithub Repository object self.repo).        *)
(***************************************************************************)
Files == 1..NumFiles
BaseBranch == "base"     \* self.base_branch
BranchName == "impr"     \* self.branch_name
BranchNames == {BaseBranch, BranchName}

SrcPath(f) == <<"src", f>>
TestPath(f) == <<"test", f>>
ChangelogPath == <<"changelog", 0>>
RefPath == <<"ref", 0>>
Paths == {SrcPath(f) : f \in Files} \cup {TestPath(f) : f \in Files}
            \cup {ChangelogPath}

Absent == [present |-> FALSE, data |-> <<>>]
Blob(d) == [present |-> TRUE, data |-> d]

\* The state a store call works on and hands on.
StoreNow == [repo |-> repo, branches |-> branches, writes |-> writes,
             faults |-> faults_left, ok |-> TRUE, err |-> "none"]

\* Why the store refuses a call, or "none". A blob's revision token (sha) is
\* modelled by the blob's data.
Refusal(S, op, b, p, sha) ==
    IF b \notin S.branches
    THEN IF store_strict THEN "not found" ELSE "none"
    ELSE IF op = "update_file"
         THEN IF ~S.repo[b][p].present THEN "not found"
              ELSE IF S.repo[b][p].data # sha THEN "conflict" ELSE "none"
         ELSE IF S.repo[b][p].present THEN "exists" ELSE "none"

\* repo.update_file(p, message, data, sha, branch=b) or
\* repo.create_file(p, message, data, branch=b); `fault` is a failure in transit.
\* The log keeps the revision token the call was sent with.
StoreWrite(S, actor, op, b, p, data, sha, fault) ==
    LET why == IF fault THEN "transport" ELSE Refusal(S, op, b, p, sha)
        done == why = "none"
    IN [repo |-> IF done /\ b \in S.branches
                 THEN [S.repo EXCEPT ![b][p] = Blob(data)]
                 ELSE S.repo,
        branches |-> S.branches,
        writes |-> Append(S.writes, [actor |-> actor, op |-> op, branch |-> b,
                                     path |-> p, data |-> data, sha |-> sha,
                                     ok |-> done, at |-> pc]),
        faults |-> IF fault THEN S.faults - 1 ELSE S.faults,
        ok |-> done,
        err |-> why]

\* repo.create_git_ref(ref=refs/heads/<branch_name>, sha=<head of base>).
StoreCreateRef(S, fault) ==
    LET done == ~fault /\ BranchName \notin S.branches
    IN [repo |-> IF done THEN [S.repo EXCEPT ![BranchName] = S.repo[BaseBranch]]
                 ELSE S.repo,
        branches |-> IF done THEN S.branches \cup {BranchName} ELSE S.branches,
        writes |-> Append(S.writes, [actor |-> "main", op |-> "create_git_ref",
                                     branch |-> BranchName, path |-> RefPath,
                                     data |-> <<>>, ok |-> done, at |-> pc]),
        faults |-> IF fault THEN S.faults - 1 ELSE S.faults,
        ok |-> done,
        err |-> IF done THEN "none" ELSE IF fault THEN "transport" ELSE "exists"]

\* Fault choices an action with n store calls may draw.
FaultChoices(n) ==
    {fs \in [1..n -> BOOLEAN] : Cardinality({i \in 1..n : fs[i]}) <= faults_left}

(***************************************************************************)
(* read_changelog / update_changelog                                       *)
(***************************************************************************)
DefaultChangelog ==
    <<"# Changelog", "## [Unreleased]", "### Added", "### Changed", "### Fixed">>

\* The publication target of the changelog.
ChangelogBranch == IF direct_commit THEN BaseBranch ELSE BranchName

\* A read_changelog that creates the missing changelog in a dry run as well.
read_changelog_AlwaysCreate(S, actor, fault) ==
    IF S.repo[BaseBranch][ChangelogPath].present
    THEN [S |-> S, content |-> S.repo[BaseBranch][ChangelogPath].data]
    ELSE [S |-> [StoreWrite(S, actor, "create_file", ChangelogBranch,
                            ChangelogPath, DefaultChangelog, <<>>, fault)
                 EXCEPT !.ok = TRUE, !.err = "none"],
          content |-> DefaultChangelog]

\* read_changelog(): the content on the base branch; when there is none, the
\* default document, created on the target branch unless self.dry_run.
read_changelog(S, actor, fault) ==
    IF S.repo[BaseBranch][ChangelogPath].present
    THEN [S |-> S, content |-> S.repo[BaseBranch][ChangelogPath].data]
    ELSE [S |-> IF dry_run THEN S
                ELSE [StoreWrite(S, actor, "create_file", ChangelogBranch,
                                 ChangelogPath, DefaultChangelog, <<>>, fault)
                      EXCEPT !.ok = TRUE, !.err = "none"],
          content |-> DefaultChangelog]

\* The keyword heuristics of update_changelog on the explanations of the model.
Category(explanation) ==
    IF explanation \in {"fix bug", "fix and add"} THEN "fixed"
    ELSE IF explanation \in {"add check"} THEN "added"
    ELSE "changed"

\* "- <file>: <explanation>" for every suggestion of one change, in order.
RECURSIVE EntriesOfChange(_, _, _)
EntriesOfChange(f, suggestions, cat) ==
    IF suggestions = <<>> THEN <<>>
    ELSE (IF "explanation" \in DOMAIN Head(suggestions)
             /\ Category(Head(suggestions).explanation) = cat
          THEN <<"-", ToString(f), Head(suggestions).explanation>>
          ELSE <<>>)
         \o EntriesOfChange(f, Tail(suggestions), cat)

RECURSIVE EntriesOf(_, _)
EntriesOf(changes, cat) ==
    IF changes = <<>> THEN <<>>
    ELSE EntriesOfChange(Head(changes).file_path,
                         Head(changes).suggested_changes, cat)
         \o EntriesOf(Tail(changes), cat)

Today == "## [today]"
IsHeading(tok) ==
    tok \in {"## [Unreleased]", "### Added", "### Changed", "### Fixed", Today}

\* The dated section update_changelog builds.
NewSection(changes) ==
    LET added == EntriesOf(changes, "added")
        changed == EntriesOf(changes, "changed")
        fixed == EntriesOf(changes, "fixed")
    IN <<Today>>
       \o (IF added # <<>> THEN <<"### Added">> \o added ELSE <<>>)
       \o (IF changed # <<>> THEN <<"### Changed">> \o changed ELSE <<>>)
       \o (IF fixed # <<>> THEN <<"### Fixed">> \o fixed ELSE <<>>)

\* re.search(r"## \[Unreleased\].*?(?=##|\Z)", doc, re.DOTALL).end(): the
\* position (in tokens kept before it) of the first heading after the
\* Unreleased heading, or the end; 0 when there is no Unreleased heading.
InsertPos(doc) ==
    LET un == {i \in 1..Len(doc) : doc[i] = "## [Unreleased]"}
    IN IF un = {} THEN 0
       ELSE LET u == CHOOSE i \in un : \A k \in un : i <= k
                later == {i \in (u + 1)..Len(doc) : IsHeading(doc[i])}
            IN IF later = {} THEN Len(doc)
               ELSE (CHOOSE i \in later : \A k \in later : i <= k) - 1

\* An insertion that appends the section to the document.
InsertSection_AtEnd(doc, section) == doc \o section

\* updated_changelog of update_changelog.
InsertSection(doc, section) ==
    IF InsertPos(doc) > 0
    THEN SubSeq(doc, 1, InsertPos(doc)) \o section
            \o SubSeq(doc, InsertPos(doc) + 1, Len(doc))
    ELSE <<"# Changelog", "## [Unreleased]", Today>> \o section \o doc

\* update_changelog(changes_list, dry_run=dry); fs are the transit failures of
\* its (at most three) store writes.
update_changelog(S, changes, dry, fs) ==
    LET rc == read_changelog(S, "main", fs[1])
        S1 == rc.S
        section == NewSection(changes)
        updated == InsertSection(rc.content, section)
        onBase == S1.repo[BaseBranch][ChangelogPath]
        created == StoreWrite(S1, "main", "create_file", ChangelogBranch,
                              ChangelogPath, updated, <<>>, fs[3])
        upd == StoreWrite(S1, "main", "update_file", ChangelogBranch,
                          ChangelogPath, updated, onBase.data, fs[2])
        recreated == StoreWrite(upd, "main", "create_file", ChangelogBranch,
                                ChangelogPath, updated, <<>>, fs[3])
    IN IF changes = <<>> THEN [S EXCEPT !.ok = FALSE]
       ELSE IF Len(section) = 1 THEN [S1 EXCEPT !.ok = FALSE]
       ELSE IF dry THEN [S1 EXCEPT !.ok = TRUE]
       ELSE IF ~onBase.present THEN created
       ELSE IF upd.ok THEN upd
       ELSE IF upd.err = "not found" THEN recreated
       ELSE upd

(***************************************************************************)
(* implement_tests                                                         *)
(***************************************************************************)
RECURSIVE TestBodies(_)
TestBodies(suggestions) ==
    IF suggestions = <<>> THEN <<>>
    ELSE (IF "test_code" \in DOMAIN Head(suggestions)
             /\ Head(suggestions).test_code # ""
          THEN <<Head(suggestions).test_code>> ELSE <<>>)
         \o TestBodies(Tail(suggestions))

NoTests == [kind |-> "none", content |-> <<>>, exists |-> FALSE, sha |-> <<>>]

\* implement_tests is not being called.
IdleSynth ==
    /\ s_pc = "idle"
    /\ s_file = 0
    /\ s_changes = <<>>
    /\ s_result = NoTests

\* An implement_tests that starts a new test file although one exists.
implement_tests_Fresh(S, f, suggestions) ==
    IF TestBodies(suggestions) = <<>> THEN NoTests
    ELSE [kind |-> "tests",
          content |-> <<"scaffold">> \o TestBodies(suggestions),
          exists |-> FALSE, sha |-> <<>>]

\* implement_tests(file_path, suggested_changes): at most one test file.
implement_tests(S, f, suggestions) ==
    LET existing == S.repo[BaseBranch][TestPath(f)]
    IN IF TestBodies(suggestions) = <<>> THEN NoTests
       ELSE IF existing.present
       THEN [kind |-> "tests",
             content |-> existing.data \o <<"# New tests for changes">>
                            \o TestBodies(suggestions),
             exists |-> TRUE, sha |-> existing.data]
       ELSE [kind |-> "tests",
             content |-> <<"scaffold">> \o TestBodies(suggestions),
             exists |-> FALSE, sha |-> <<>>]

(***************************************************************************)
(* implement_changes(file_analysis, dry_run=False) as run() calls it        *)
(***************************************************************************)
NoChangeSet == [kind |-> None]

ChangeSet(fa, st) ==
    [kind |-> "changes", file_path |-> fa.file_path, content |-> st.content,
     original_content |-> st.original_content,
     changes_applied |-> st.changes_applied,
     suggested_changes |-> fa.suggested_changes]

\* An implement_changes that returns the change set although the content write
\* failed.
implement_changes_KeepFailed(S, fa, fs) ==
    LET f == fa.file_path
        file_contents == S.repo[BaseBranch][SrcPath(f)]
        st == ApplyChanges([content |-> file_contents.data,
                            original_content |-> file_contents.data,
                            changes_applied |-> 0], fa.suggested_changes)
        S1 == StoreWrite(S, "main", "update_file", BranchName, SrcPath(f),
                         st.content, file_contents.data, fs[1])
    IN IF ~ChangeProduced(st) THEN [S |-> S, result |-> NoChangeSet]
       ELSE [S |-> S1, result |-> ChangeSet(fa, st)]

implement_changes(S, fa, fs) ==
    LET f == fa.file_path
        file_contents == S.repo[BaseBranch][SrcPath(f)]
        st == ApplyChanges([content |-> file_contents.data,
                            original_content |-> file_contents.data,
                            changes_applied |-> 0], fa.suggested_changes)
        S1 == StoreWrite(S, "main", "update_file", BranchName, SrcPath(f),
                         st.content, file_contents.data, fs[1])
        tf == implement_tests(S1, f, fa.suggested_changes)
        S2 == IF tf.kind = "none" THEN S1
              ELSE [StoreWrite(S1, "main",
                               IF tf.exists THEN "update_file" ELSE "create_file",
                               BranchName, TestPath(f), tf.content, tf.sha, fs[2])
                    EXCEPT !.ok = TRUE]
    IN IF fa.suggested_changes = <<>> \/ ~file_contents.present
       THEN [S |-> S, result |-> NoChangeSet]
       ELSE IF ~ChangeProduced(st) THEN [S |-> S, result |-> NoChangeSet]
       ELSE IF ~S1.ok THEN [S |-> S1, result |-> NoChangeSet]
       ELSE [S |-> S2, result |-> ChangeSet(fa, st)]

(***************************************************************************)
(* Spec: one call of run().                                                *)
(***************************************************************************)
SourceText == <<"a", "b">>

D_fix == [original_code |-> <<"a">>, improved_code |-> <<"b">>,
          explanation |-> "fix bug", test_code |-> "test_fix"]
D_add == [original_code |-> <<"b", "b">>, improved_code |-> <<"a">>,
          explanation |-> "add check", test_code |-> "test_add"]

\* What the completion service may answer for a file: a failure, text that is
\* not JSON, a JSON number, or a fenced JSON object whose suggested_changes
\* member is `payload`.
RunResponses ==
    {[kind |-> "http_error", text |-> <<>>, payload |-> <<>>],
     [kind |-> "ok", text |-> <<"x">>, payload |-> <<>>],
     [kind |-> "ok", text |-> <<"1">>, payload |-> <<>>]}
    \cup {[kind |-> "ok",
           text |-> <<"F", "j", "w", "{", "A", ":", "1", "}", "w", "F">>,
           payload |-> cl] : cl \in {<<>>, <<D_fix>>, <<D_add>>, <<D_add, D_fix>>}}

JsonType(v) ==
    IF v[1] = "{" THEN "object" ELSE IF v[1] \in {"q", "A"} THEN "string" ELSE "number"

NoFuture == [kind |-> "pending", file_path |-> 0, jtype |-> "none",
             suggested_changes |-> <<>>]

\* analyze_file on each of these responses.
AnalysisOfResponse ==
    [resp \in RunResponses |-> analyze_file([kind |-> resp.kind, text |-> resp.text])]

\* What the future of analyze_file(file) holds for a response.
FutureOf(f, resp) ==
    LET r == AnalysisOfResponse[resp]
    IN IF r.kind = "result"
       THEN [kind |-> "analysis", file_path |-> f, jtype |-> JsonType(r.analysis),
             suggested_changes |-> IF JsonType(r.analysis) = "object"
                                   THEN resp.payload ELSE <<>>]
       ELSE [kind |-> r.kind, file_path |-> f, jtype |-> "none",
             suggested_changes |-> <<>>]

IdlePatch ==
    /\ suggested_changes = <<>>
    /\ next_change = 1
    /\ content = <<>>
    /\ original_content = <<>>
    /\ changes_applied = 0
    /\ patch_result = [kind |-> None]
    /\ history = <<>>

IdleExtract ==
    /\ response = [kind |-> "malformed", text |-> <<>>]
    /\ extract_result = ExtractNone

InitRun ==
    /\ dry_run \in BOOLEAN
    /\ direct_commit \in BOOLEAN
    /\ use_parallel \in BOOLEAN
    /\ max_workers \in 1..MaxWorkers
    /\ store_strict \in BOOLEAN
    /\ pc = "start"
    /\ task = [f \in Files |-> "queued"]
    /\ future = [f \in Files |-> NoFuture]
    /\ requests = [f \in Files |-> 0]
    /\ all_analyses = <<>>
    /\ next_analysis = 1
    /\ changes_list = <<>>
    /\ branches = {BaseBranch}
    /\ \E changelog \in {Absent, Blob(DefaultChangelog)} :
          repo = [b \in BranchNames |-> [p \in Paths |->
                    IF b # BaseBranch THEN Absent
                    ELSE IF p[1] = "src" THEN Blob(SourceText)
                    ELSE IF p = TestPath(1) THEN Blob(<<"old tests">>)
                    ELSE IF p = ChangelogPath THEN changelog
                    ELSE Absent]]
    /\ writes = <<>>
    /\ pulls = <<>>
    /\ faults_left = MaxFaults
    /\ next_commit = 1
    /\ success_count = 0
    /\ commit_result = "none"

IdleRun ==
    /\ dry_run = TRUE
    /\ direct_commit = TRUE
    /\ use_parallel = TRUE
    /\ max_workers = 1
    /\ store_strict = TRUE
    /\ pc = "done"
    /\ task = [f \in Files |-> "collected"]
    /\ future = [f \in Files |-> NoFuture]
    /\ requests = [f \in Files |-> 0]
    /\ all_analyses = <<>>
    /\ next_analysis = 1
    /\ changes_list = <<>>
    /\ branches = {BaseBranch}
    /\ repo = [b \in BranchNames |-> [p \in Paths |-> Absent]]
    /\ writes = <<>>
    /\ pulls = <<>>
    /\ faults_left = 0
    /\ next_commit = 1
    /\ success_count = 0
    /\ commit_result = "none"

SetStore(S) ==
    /\ repo' = S.repo
    /\ branches' = S.branches
    /\ writes' = S.writes
    /\ faults_left' = S.faults

config == <<dry_run, direct_commit, use_parallel, max_workers, store_strict>>

\* run() up to the thread pool: create_branch() unless dry-run or direct commit;
\* executor.submit for every file (the tasks are queued).
Start ==
    /\ pc = "start"
    /\ \E fs \in FaultChoices(1) :
          SetStore(IF ~dry_run /\ ~direct_commit
                   THEN StoreCreateRef(StoreNow, fs[1]) ELSE StoreNow)
    /\ pc' = "analyze"
    /\ UNCHANGED <<config, task, future, requests, all_analyses, next_analysis,
                   changes_list, pulls, next_commit, success_count, commit_result>>
    /\ UNCHANGED <<pvars, evars, tvars, svars>>

\* A pool thread takes the next queued task and runs analyze_file up to the
\* completion call: the read_changelog() for the prompt.
WorkerStart(f) ==
    /\ pc = "analyze"
    /\ task[f] = "queued"
    /\ \A g \in Files : g < f => task[g] # "queued"
    /\ Cardinality({g \in Files : task[g] = "running"}) < max_workers
    /\ task' = [task EXCEPT ![f] = "running"]
    /\ \E fs \in FaultChoices(1) :
          SetStore(read_changelog(StoreNow, "worker", fs[1]).S)
    /\ UNCHANGED <<config, pc, future, requests, all_analyses, next_analysis,
                   changes_list, pulls, next_commit, success_count, commit_result>>
    /\ UNCHANGED <<pvars, evars, tvars, svars>>

\* A worker that calls the completion service again after a failure.
TaskAfterCall_Retry(fut) == IF fut.kind = "analysis" THEN "done" ELSE "running"

\* analyze_file returns after its one call_openrouter_api, whatever came back.
TaskAfterCall(fut) == "done"

\* The completion call of analyze_file and the extraction; the future is done.
WorkerCall(f) ==
    /\ pc = "analyze"
    /\ task[f] = "running"
    /\ \E resp \in RunResponses :
          LET fut == FutureOf(f, resp)
          IN /\ future' = [future EXCEPT ![f] = fut]
             /\ task' = [task EXCEPT ![f] = TaskAfterCall(fut)]
    /\ requests' = [requests EXCEPT ![f] = @ + 1]
    /\ UNCHANGED <<config, pc, all_analyses, next_analysis, changes_list,
                   branches, repo, writes, pulls, faults_left, next_commit,
                   success_count, commit_result>>
    /\ UNCHANGED <<pvars, evars, tvars, svars>>

\* The body of the as_completed loop with every future kept.
CollectResult_KeepAll(acc, fut) == Append(acc, fut)

\* try: file_analysis = future.result(); if file_analysis: append; except: log.
CollectResult(acc, fut) ==
    IF fut.kind = "analysis" THEN Append(acc, fut) ELSE acc

\* One turn of `for future in as_completed(future_to_file)`.
Collect(f) ==
    /\ pc = "analyze"
    /\ task[f] = "done"
    /\ task' = [task EXCEPT ![f] = "collected"]
    /\ all_analyses' = CollectResult(all_analyses, future[f])
    /\ UNCHANGED <<config, pc, future, requests, next_analysis, changes_list,
                   branches, repo, writes, pulls, faults_left, next_commit,
                   success_count, commit_result>>
    /\ UNCHANGED <<pvars, evars, tvars, svars>>

\* The pool block is left when every future has been consumed.
AnalysisDone ==
    /\ pc = "analyze"
    /\ \A f \in Files : task[f] = "collected"
    /\ pc' = "implement"
    /\ UNCHANGED <<config, task, future, requests, all_analyses, next_analysis,
                   changes_list, branches, repo, writes, pulls, faults_left,
                   next_commit, success_count, commit_result>>
    /\ UNCHANGED <<pvars, evars, tvars, svars>>

\* 'suggested_changes' in file_analysis['analysis'] and
\* file_analysis['analysis']['suggested_changes']: `in` on a JSON number raises
\* TypeError, on a string it is a substring test.
SuggestionsCheck(fa) ==
    IF fa.jtype = "object"
    THEN IF fa.suggested_changes # <<>> THEN "yes" ELSE "no"
    ELSE IF fa.jtype = "string" THEN "no"
    ELSE Raised

\* One turn of `for file_analysis in all_analyses`.
ImplementNext ==
    /\ pc = "implement"
    /\ next_analysis <= Len(all_analyses)
    /\ LET fa == all_analyses[next_analysis]
           check == SuggestionsCheck(fa)
       IN \E fs \in FaultChoices(2) :
            LET ic == implement_changes(StoreNow, fa, fs)
            IN /\ pc' = IF check = Raised THEN "raised" ELSE pc
               /\ next_analysis' = IF check = Raised THEN next_analysis
                                   ELSE next_analysis + 1
               /\ changes_list' =
                     IF check # "yes" THEN changes_list
                     ELSE IF dry_run THEN Append(changes_list, fa)
                     ELSE IF ic.result.kind = "changes"
                          THEN Append(changes_list, ic.result)
                          ELSE changes_list
               /\ SetStore(IF check = "yes" /\ ~dry_run THEN ic.S ELSE StoreNow)
    /\ UNCHANGED <<config, task, future, requests, all_analyses, pulls,
                   next_commit, success_count, commit_result>>
    /\ UNCHANGED <<pvars, evars, tvars, svars>>

\* After the loop: update_changelog(changes_list, dry_run=dry_run) if any.
UpdateChangelog ==
    /\ pc = "implement"
    /\ next_analysis > Len(all_analyses)
    /\ \E fs \in FaultChoices(3) :
          SetStore(IF changes_list # <<>>
                   THEN update_changelog(StoreNow, changes_list, dry_run, fs)
                   ELSE StoreNow)
    /\ pc' = "publish"
    /\ UNCHANGED <<config, task, future, requests, all_analyses, next_analysis,
                   changes_list, pulls, next_commit, success_count, commit_result>>
    /\ UNCHANGED <<pvars, evars, tvars, svars>>

\* run_tests(): the mock_test_run hook when set; otherwise a clone of
\* self.branch_name and the exit status of the test command.
TestHooks == {"unset", "pass", "fail"}
run_tests(S, hook, exit) ==
    IF hook # "unset" THEN hook = "pass"
    ELSE BranchName \in S.branches /\ exit = 0

\* A pull request whose body names the first file only.
create_pull_request_FirstFileOnly(S, changes, fault) ==
    [S |-> [S EXCEPT !.writes = Append(@, [actor |-> "main", op |-> "create_pull",
                                          branch |-> BranchName, path |-> RefPath,
                                          data |-> <<>>, ok |-> ~fault, at |-> pc]),
                     !.faults = IF fault THEN @ - 1 ELSE @,
                     !.ok = ~fault],
     pull |-> [head |-> BranchName, base |-> BaseBranch,
               files |-> {changes[1].file_path}]]

\* repo.create_pull(head=self.branch_name, base=self.base_branch).
create_pull_request(S, changes, fault) ==
    LET done == /\ ~fault
                /\ \/ ~store_strict
                   \/ /\ BranchName \in S.branches
                      /\ S.repo[BranchName] # S.repo[BaseBranch]
    IN [S |-> [S EXCEPT !.writes = Append(@, [actor |-> "main", op |-> "create_pull",
                                             branch |-> BranchName, path |-> RefPath,
                                             data |-> <<>>, ok |-> done, at |-> pc]),
                        !.faults = IF fault THEN @ - 1 ELSE @,
                        !.ok = done],
        pull |-> [head |-> BranchName, base |-> BaseBranch,
                  files |-> {changes[i].file_path : i \in 1..Len(changes)}]]

\* `if changes_list and not dry_run` is false: nothing is published.
PublishNothing ==
    /\ pc = "publish"
    /\ changes_list = <<>> \/ dry_run
    /\ pc' = "done"
    /\ UNCHANGED <<config, task, future, requests, all_analyses, next_analysis,
                   changes_list, branches, repo, writes, pulls, faults_left,
                   next_commit, success_count, commit_result>>
    /\ UNCHANGED <<pvars, evars, tvars, svars>>

\* The pull-request branch of run().
CreatePullRequest ==
    /\ pc = "publish"
    /\ changes_list # <<>> /\ ~dry_run /\ ~direct_commit
    /\ \E fs \in FaultChoices(1) :
          LET pr == create_pull_request(StoreNow, changes_list, fs[1])
          IN /\ SetStore(pr.S)
             /\ pulls' = IF pr.S.ok THEN Append(pulls, pr.pull) ELSE pulls
    /\ pc' = "done"
    /\ UNCHANGED <<config, task, future, requests, all_analyses, next_analysis,
                   changes_list, next_commit, success_count, commit_result>>
    /\ UNCHANGED <<pvars, evars, tvars, svars>>

RECURSIVE TotalChanges(_)
TotalChanges(changes) ==
    IF changes = <<>> THEN 0
    ELSE Head(changes).changes_applied + TotalChanges(Tail(changes))

\* commit_changes_directly up to its file loop: the empty-list and total
\* checks, the tests gate and the second update_changelog.
CommitEnter ==
    /\ \E hook \in TestHooks, exit \in {0, 1}, fs \in FaultChoices(3) :
          LET passed == run_tests(StoreNow, hook, exit)
              proceed == /\ changes_list # <<>>
                         /\ TotalChanges(changes_list) # 0
                         /\ passed
          IN /\ commit_result' = IF changes_list = <<>> THEN "no_changes_list"
                                 ELSE IF TotalChanges(changes_list) = 0 THEN "no_changes"
                                 ELSE IF ~passed THEN "tests_failed"
                                 ELSE commit_result
             /\ pc' = IF proceed THEN "commit" ELSE "done"
             /\ SetStore(IF proceed
                         THEN update_changelog(StoreNow, changes_list, FALSE, fs)
                         ELSE StoreNow)
    /\ next_commit' = 1
    /\ success_count' = 0
    /\ UNCHANGED <<config, task, future, requests, all_analyses, next_analysis,
                   changes_list, pulls>>
    /\ UNCHANGED <<pvars, evars, tvars, svars>>

\* The direct-commit branch of run().
CommitGate ==
    /\ pc = "publish"
    /\ changes_list # <<>> /\ ~dry_run /\ direct_commit
    /\ CommitEnter

\* commit_changes_directly called on its own with a change list.
CommitCall ==
    /\ pc = "call"
    /\ CommitEnter

\* A file loop that counts a file whose content write failed.
commit_file_CountFailed(S, change, fs) ==
    LET f == change.file_path
        file_content == S.repo[BaseBranch][SrcPath(f)]
    IN [S |-> StoreWrite(S, "main", "update_file", BaseBranch, SrcPath(f),
                         change.content, file_content.data, fs[1]),
        committed |-> TRUE]

\* One turn of `for change in changes_list` of commit_changes_directly.
commit_file(S, change, fs) ==
    LET f == change.file_path
        file_content == S.repo[BaseBranch][SrcPath(f)]
        S1 == StoreWrite(S, "main", "update_file", BaseBranch, SrcPath(f),
                         change.content, file_content.data, fs[1])
        tf == implement_tests(S1, f, change.suggested_changes)
        existing == S1.repo[BaseBranch][TestPath(f)]
        upd == StoreWrite(S1, "main", "update_file", BaseBranch, TestPath(f),
                          tf.content, existing.data, fs[2])
        S2 == IF tf.kind = "none" THEN S1
              ELSE IF existing.present /\ upd.ok THEN upd
              ELSE StoreWrite(IF existing.present THEN upd ELSE S1, "main",
                              "create_file", BaseBranch, TestPath(f),
                              tf.content, <<>>, fs[3])
    IN IF ~file_content.present THEN [S |-> S, committed |-> FALSE]
       ELSE IF ~S1.ok THEN [S |-> S1, committed |-> FALSE]
       ELSE [S |-> S2, committed |-> TRUE]

CommitFile ==
    /\ pc = "commit"
    /\ next_commit <= Len(changes_list)
    /\ \E fs \in FaultChoices(3) :
          LET c == commit_file(StoreNow, changes_list[next_commit], fs)
          IN /\ SetStore(c.S)
             /\ success_count' = IF c.committed THEN success_count + 1
                                 ELSE success_count
    /\ next_commit' = next_commit + 1
    /\ UNCHANGED <<config, pc, task, future, requests, all_analyses,
                   next_analysis, changes_list, pulls, commit_result>>
    /\ UNCHANGED <<pvars, evars, tvars, svars>>

CommitReturn ==
    /\ pc = "commit"
    /\ next_commit > Len(changes_list)
    /\ commit_result' = IF success_count > 0 THEN "committed" ELSE "failed"
    /\ pc' = "done"
    /\ UNCHANGED <<config, task, future, requests, all_analyses, next_analysis,
                   changes_list, branches, repo, writes, pulls, faults_left,
                   next_commit, success_count>>
    /\ UNCHANGED <<pvars, evars, tvars, svars>>

NextRun ==
    \/ Start
    \/ \E f \in Files : WorkerStart(f)
    \/ \E f \in Files : WorkerCall(f)
    \/ \E f \in Files : Collect(f)
    \/ AnalysisDone
    \/ ImplementNext
    \/ UpdateChangelog
    \/ PublishNothing
    \/ CreatePullRequest
    \/ CommitGate
    \/ CommitFile
    \/ CommitReturn

(***************************************************************************)
(* SpecTests: one call of run_tests(), step by step.                       *)
(***************************************************************************)
\* What the environment will do: where (if anywhere) a call raises, the return
\* code of git clone, the layout of the cloned repository, the exit status and
\* the standard error of the test command, and whether test files were named.
SandboxEnvs ==
    [raise_at : {"none", "mkdtemp", "clone", "test"},
     clone_rc : {0, 128},
     layout : {"pytest.ini", "tests", "package.json", "other"},
     exit : {0, 1, 2},
     stderr : {<<>>, <<"err">>},
     test_files : BOOLEAN]

Pending == [kind |-> "pending", passed |-> FALSE, output |-> <<>>]
Report(passed, output) == [kind |-> "result", passed |-> passed, output |-> output]

InitTests ==
    /\ t_pc = "enter"
    /\ mock_test_run \in TestHooks
    /\ sandbox_env \in SandboxEnvs
    /\ workspace = "none"
    /\ test_cmd = <<>>
    /\ test_report = Pending

IdleTests ==
    /\ t_pc = "idle"
    /\ mock_test_run = "unset"
    /\ sandbox_env = [raise_at |-> "none", clone_rc |-> 0, layout |-> "other",
                      exit |-> 0, stderr |-> <<>>, test_files |-> FALSE]
    /\ workspace = "none"
    /\ test_cmd = <<>>
    /\ test_report = Pending

\* A workspace that is kept when the run did not pass.
LeaveWorkspace_KeepOnFailure(passed) == IF passed THEN "deleted" ELSE "exists"

\* Leaving `with tempfile.TemporaryDirectory() as temp_dir`, by return or by
\* exception.
LeaveWorkspace(passed) == "deleted"

\* except Exception as e: return False, str(e)
ExceptReport(text) == Report(FALSE, text)

\* A runner that reports success whatever the exit status.
TestSuccess_Always(returncode) == TRUE

\* success = test_process.returncode == 0
TestSuccess(returncode) == returncode = 0

\* The mock_test_run hook, else the creation of the temporary directory.
RunTestsEnter ==
    /\ t_pc = "enter"
    /\ IF mock_test_run # "unset"
       THEN /\ test_report' = Report(mock_test_run = "pass", <<"mock output">>)
            /\ t_pc' = "returned"
            /\ UNCHANGED workspace
       ELSE IF sandbox_env.raise_at = "mkdtemp"
       THEN /\ test_report' = ExceptReport(<<"exception">>)
            /\ t_pc' = "returned"
            /\ UNCHANGED workspace
       ELSE /\ workspace' = "exists"
            /\ t_pc' = "cloning"
            /\ UNCHANGED test_report
    /\ UNCHANGED <<mock_test_run, sandbox_env, test_cmd>>
    /\ UNCHANGED <<pvars, evars, rvars, svars>>

\* git clone --branch <branch_name> --single-branch <temp_dir>.
RunTestsClone ==
    /\ t_pc = "cloning"
    /\ IF sandbox_env.raise_at = "clone"
       THEN /\ test_report' = ExceptReport(<<"exception">>)
            /\ workspace' = LeaveWorkspace(FALSE)
            /\ t_pc' = "returned"
       ELSE IF sandbox_env.clone_rc # 0
       THEN /\ test_report' = Report(FALSE, <<"clone stderr">>)
            /\ workspace' = LeaveWorkspace(FALSE)
            /\ t_pc' = "returned"
       ELSE /\ t_pc' = "select"
            /\ UNCHANGED <<workspace, test_report>>
    /\ UNCHANGED <<mock_test_run, sandbox_env, test_cmd>>
    /\ UNCHANGED <<pvars, evars, rvars, svars>>

\* The test command chosen from the layout of the clone.
SelectCommand(layout, test_files) ==
    IF layout \in {"pytest.ini", "tests"}
    THEN <<"python", "-m", "pytest">>
            \o (IF test_files THEN <<"test files">> ELSE <<>>) \o <<"-v">>
    ELSE IF layout = "package.json" THEN <<"npm", "test">>
    ELSE <<"python", "-m", "unittest", "discover">>

RunTestsSelect ==
    /\ t_pc = "select"
    /\ test_cmd' = SelectCommand(sandbox_env.layout, sandbox_env.test_files)
    /\ t_pc' = "testing"
    /\ UNCHANGED <<mock_test_run, sandbox_env, workspace, test_report>>
    /\ UNCHANGED <<pvars, evars, rvars, svars>>

\* subprocess.run(test_cmd, cwd=temp_dir) and the return.
RunTestsCommand ==
    /\ t_pc = "testing"
    /\ LET success == TestSuccess(sandbox_env.exit)
       IN IF sandbox_env.raise_at = "test"
          THEN /\ test_report' = ExceptReport(<<"exception">>)
               /\ workspace' = LeaveWorkspace(FALSE)
          ELSE /\ test_report' = Report(success,
                                        IF success THEN <<"stdout">>
                                        ELSE <<"stdout">> \o sandbox_env.stderr)
               /\ workspace' = LeaveWorkspace(success)
    /\ t_pc' = "returned"
    /\ UNCHANGED <<mock_test_run, sandbox_env, test_cmd>>
    /\ UNCHANGED <<pvars, evars, rvars, svars>>

NextTests == RunTestsEnter \/ RunTestsClone \/ RunTestsSelect \/ RunTestsCommand

TestsInit == InitTests /\ IdlePatch /\ IdleExtract /\ IdleRun /\ IdleSynth

SpecTests == TestsInit /\ [][NextTests]_vars

(***************************************************************************)
(* The specifications.                                                     *)
(***************************************************************************)
PatchInit == InitPatch /\ IdleExtract /\ IdleRun /\ IdleTests /\ IdleSynth

SpecPatch == PatchInit /\ [][NextPatch]_vars

ExtractInit == InitExtract /\ IdlePatch /\ IdleRun /\ IdleTests /\ IdleSynth

SpecExtract == ExtractInit /\ [][NextExtract]_vars

Init == InitRun /\ IdlePatch /\ IdleExtract /\ IdleTests /\ IdleSynth

\* Change sets commit_changes_directly may be handed.
CommitChangeSets ==
    [kind : {"changes"}, file_path : Files, content : {<<"b", "b">>},
     original_content : {SourceText}, changes_applied : {0, 1},
     suggested_changes : {<<>>, <<D_fix>>}]

CommitLists ==
    {<<>>} \cup {<<c>> : c \in CommitChangeSets}
           \cup {<<c, d>> : c \in {x \in CommitChangeSets : x.file_path = 1},
                            d \in {x \in CommitChangeSets : x.file_path = 2}}

InitCommit ==
    /\ dry_run = FALSE
    /\ direct_commit = TRUE
    /\ use_parallel = TRUE
    /\ max_workers = 1
    /\ store_strict \in BOOLEAN
    /\ pc = "call"
    /\ task = [f \in Files |-> "collected"]
    /\ future = [f \in Files |-> NoFuture]
    /\ requests = [f \in Files |-> 0]
    /\ all_analyses = <<>>
    /\ next_analysis = 1
    /\ changes_list \in CommitLists
    /\ branches = {BaseBranch}
    /\ \E changelog \in {Absent, Blob(DefaultChangelog)},
          second \in {Absent, Blob(SourceText)} :
          repo = [b \in BranchNames |-> [p \in Paths |->
                    IF b # BaseBranch THEN Absent
                    ELSE IF p = SrcPath(1) THEN Blob(SourceText)
                    ELSE IF p[1] = "src" THEN second
                    ELSE IF p = TestPath(1) THEN Blob(<<"old tests">>)
                    ELSE IF p = ChangelogPath THEN changelog
                    ELSE Absent]]
    /\ writes = <<>>
    /\ pulls = <<>>
    /\ faults_left = MaxFaults
    /\ next_commit = 1
    /\ success_count = 0
    /\ commit_result = "none"

CommitInit == InitCommit /\ IdlePatch /\ IdleExtract /\ IdleTests /\ IdleSynth

\* What another client of the repository leaves in a source file.
OtherText == <<"z">>

\* Another client of the repository commits to a source file of the base
\* branch while commit_changes_directly is under way.
OtherWriter ==
    /\ pc \in {"call", "commit"}
    /\ \E f \in Files :
          /\ repo[BaseBranch][SrcPath(f)].present
          /\ repo[BaseBranch][SrcPath(f)].data # OtherText
          /\ repo' = [repo EXCEPT ![BaseBranch][SrcPath(f)] = Blob(OtherText)]
    /\ UNCHANGED <<config, pc, task, future, requests, all_analyses,
                   next_analysis, changes_list, branches, writes, pulls,
                   faults_left, next_commit, success_count, commit_result>>
    /\ UNCHANGED <<pvars, evars, tvars, svars>>

NextCommit == CommitCall \/ CommitFile \/ CommitReturn \/ OtherWriter

SpecCommit == CommitInit /\ [][NextCommit]_vars

\* Lines a changelog document is made of.
DocTokens == {"# Changelog", "## [Unreleased]", "### Added", Today, "note"}
ChangelogDocs == SeqsUpTo(DocTokens, MaxDocLen)

\* Change lists update_changelog may be handed.
ChangelogLists ==
    {<<[kind |-> "changes", file_path |-> 1, content |-> <<"b", "b">>,
        original_content |-> SourceText, changes_applied |-> 1,
        suggested_changes |-> sc]>> : sc \in {<<D_fix>>, <<D_add>>, <<D_add, D_fix>>}}

\* update_changelog called on its own, on a store whose improvement branch
\* (when pull requests are made) was created from the base branch.
InitChangelog ==
    /\ dry_run = FALSE
    /\ direct_commit \in BOOLEAN
    /\ use_parallel = TRUE
    /\ max_workers = 1
    /\ store_strict = TRUE
    /\ pc = "call_changelog"
    /\ task = [f \in Files |-> "collected"]
    /\ future = [f \in Files |-> NoFuture]
    /\ requests = [f \in Files |-> 0]
    /\ all_analyses = <<>>
    /\ next_analysis = 1
    /\ changes_list \in ChangelogLists
    /\ branches = IF direct_commit THEN {BaseBranch} ELSE BranchNames
    /\ \E doc \in ChangelogDocs :
          repo = [b \in BranchNames |-> [p \in Paths |->
                    IF b \notin branches THEN Absent
                    ELSE IF p = ChangelogPath THEN Blob(doc)
                    ELSE Absent]]
    /\ writes = <<>>
    /\ pulls = <<>>
    /\ faults_left = MaxFaults
    /\ next_commit = 1
    /\ success_count = 0
    /\ commit_result = "none"

ChangelogInit == InitChangelog /\ IdlePatch /\ IdleExtract /\ IdleTests /\ IdleSynth

ChangelogCall ==
    /\ pc = "call_changelog"
    /\ \E fs \in FaultChoices(3) :
          SetStore(update_changelog(StoreNow, changes_list, dry_run, fs))
    /\ pc' = "done"
    /\ UNCHANGED <<config, task, future, requests, all_analyses, next_analysis,
                   changes_list, pulls, next_commit, success_count, commit_result>>
    /\ UNCHANGED <<pvars, evars, tvars, svars>>

NextChangelog == ChangelogCall

SpecChangelog == ChangelogInit /\ [][NextChangelog]_vars

\* Directives implement_tests may be handed: with a test, without the
\* test_code member, and with an empty one.
D_plain == [original_code |-> <<"a">>, improved_code |-> <<"b">>,
            explanation |-> "rename"]
D_blank == [original_code |-> <<"a">>, improved_code |-> <<"b">>,
            explanation |-> "rename", test_code |-> ""]
SynthDirectives == {D_fix, D_add, D_plain, D_blank}

\* implement_tests called on its own; the base branch may hold a test file for
\* either source file.
InitSynth ==
    /\ s_pc = "call"
    /\ s_file \in Files
    /\ s_changes \in SeqsUpTo(SynthDirectives, MaxChanges)
    /\ s_result = [kind |-> "pending", content |-> <<>>, exists |-> FALSE,
                   sha |-> <<>>]
    /\ dry_run = FALSE
    /\ direct_commit = FALSE
    /\ use_parallel = TRUE
    /\ max_workers = 1
    /\ store_strict = TRUE
    /\ pc = "done"
    /\ task = [f \in Files |-> "collected"]
    /\ future = [f \in Files |-> NoFuture]
    /\ requests = [f \in Files |-> 0]
    /\ all_analyses = <<>>
    /\ next_analysis = 1
    /\ changes_list = <<>>
    /\ branches = {BaseBranch}
    /\ \E tests \in [Files -> {Absent, Blob(<<>>), Blob(<<"old tests">>)}] :
          repo = [b \in BranchNames |-> [p \in Paths |->
                    IF b # BaseBranch THEN Absent
                    ELSE IF p[1] = "src" THEN Blob(SourceText)
                    ELSE IF p[1] = "test" THEN tests[p[2]]
                    ELSE Absent]]
    /\ writes = <<>>
    /\ pulls = <<>>
    /\ faults_left = 0
    /\ next_commit = 1
    /\ success_count = 0
    /\ commit_result = "none"

SynthInit == InitSynth /\ IdlePatch /\ IdleExtract /\ IdleTests

ImplementTestsCall ==
    /\ s_pc = "call"
    /\ s_result' = implement_tests(StoreNow, s_file, s_changes)
    /\ s_pc' = "returned"
    /\ UNCHANGED <<s_file, s_changes>>
    /\ UNCHANGED <<pvars, evars, rvars, tvars>>

NextSynth == ImplementTestsCall

SpecSynth == SynthInit /\ [][NextSynth]_vars

Next == NextRun

Spec == Init /\ [][Next]_vars

(***************************************************************************)
(* Properties of run().                                                    *)
(***************************************************************************)
AnalysisOver == pc \notin {"start", "analyze"}

EntriesFor(f) == {i \in 1..Len(all_analyses) : all_analyses[i].file_path = f}

Running == {f \in Files : task[f] = "running"}

\* C3 (as stated in the claim): every element of the change list of run(), in
\* dry-run, pull-request and direct-commit mode alike, is a change set of the
\* patch applier whose content differs from the original content and whose
\* changes_applied is at least 1.
C3_ChangeListHoldsChangeSets ==
    \A i \in 1..Len(changes_list) :
        /\ changes_list[i].kind = "changes"
        /\ changes_list[i].content # changes_list[i].original_content
        /\ changes_list[i].changes_applied >= 1

\* A file whose analysis is an object whose directives change its source.
Patchable(f) ==
    /\ future[f].kind = "analysis"
    /\ future[f].jtype = "object"
    /\ ChangeProduced(ApplyChanges([content |-> SourceText,
                                    original_content |-> SourceText,
                                    changes_applied |-> 0],
                                   future[f].suggested_changes))

\* C4 (as stated in the claim): whatever the completion service returns for
\* one file, run() does not raise, and (absent store failures) every file whose
\* analysis succeeded with applicable directives is in the change list and the
\* publication step is reached.
C4_BadResponseNeverAborts ==
    /\ pc # "raised"
    /\ (pc = "done" /\ ~dry_run /\ faults_left = MaxFaults /\ ~store_strict) =>
          \A f \in Files :
             Patchable(f) =>
                /\ \E i \in 1..Len(changes_list) : changes_list[i].file_path = f
                /\ IF direct_commit THEN commit_result # "none" ELSE pulls # <<>>

\* C7: whatever the order of completions, the collected list holds exactly one
\* entry, the file's own result, for every collected file whose analysis
\* produced a result, and none for a file whose analysis failed or raised or
\* is not yet collected; when the analysis phase is over every file has been
\* collected, so a failed sibling loses nobody's result.
C7_OneResultPerSuccessfulFile ==
    /\ \A f \in Files :
          IF task[f] = "collected" /\ future[f].kind = "analysis"
          THEN /\ Cardinality(EntriesFor(f)) = 1
               /\ \A i \in EntriesFor(f) : all_analyses[i] = future[f]
          ELSE EntriesFor(f) = {}
    /\ AnalysisOver => \A f \in Files : task[f] = "collected"

\* A file whose analysis failed and a sibling, later in input order, whose
\* result is the one entry of the collected list.
C7_Witness ==
    /\ pc = "implement"
    /\ \E f, g \in Files :
          /\ future[f].kind = None
          /\ future[g].kind = "analysis"
          /\ f < g
          /\ Len(all_analyses) = 1
          /\ all_analyses[1].file_path = g

\* C8 (as stated in the claim): no write to the repository store is issued by
\* an analysis worker, and what the workers read from the store (the changelog
\* on the base branch) is, throughout the analysis phase, what it was when the
\* phase began.
C8_WorkersDoNotWrite ==
    /\ \A i \in 1..Len(writes) : writes[i].actor # "worker"
    /\ pc = "analyze" =>
          \A i \in 1..Len(writes) :
             ~(writes[i].ok /\ writes[i].branch = BaseBranch
                            /\ writes[i].path = ChangelogPath)

\* C9 (as stated in the claim): with use_parallel = FALSE the analysis requests
\* are issued one at a time in input order and the collected results keep
\* input order.
C9_SequentialModeIsOrdered ==
    ~use_parallel =>
        /\ Cardinality(Running) <= 1
        /\ \A f, g \in Files :
              (f < g /\ task[g] # "queued") => task[f] \notin {"queued", "running"}
        /\ \A i, j \in 1..Len(all_analyses) :
              i < j => all_analyses[i].file_path < all_analyses[j].file_path

\* C10: no file ever receives more than one completion request, and once the
\* analysis phase is over every file has received exactly one, whether its
\* analysis succeeded or failed.
C10_OneRequestPerFile ==
    /\ \A f \in Files : requests[f] <= 1
    /\ AnalysisOver => \A f \in Files : requests[f] = 1

C10_Witness ==
    /\ pc = "done"
    /\ \E f, g \in Files :
          /\ future[f].kind = None
          /\ future[g].kind = "analysis"
          /\ requests[f] = 1 /\ requests[g] = 1

(***************************************************************************)
(* Publication: order and targets of the store writes of run().            *)
(***************************************************************************)
ChangedFiles == {changes_list[i].file_path : i \in 1..Len(changes_list)}

NewContent(f) ==
    ApplyChanges([content |-> SourceText, original_content |-> SourceText,
                  changes_applied |-> 0], future[f].suggested_changes).content

\* The phase of the publication state machine a store write belongs to:
\* 1 branch creation, 2 per-file content and test writes, 3 changelog write,
\* 4 direct commit or pull-request creation.
PhaseOf(w) ==
    IF w.op = "create_git_ref" THEN 1
    ELSE IF w.at \in {"publish", "commit"} THEN 4
    ELSE IF w.path = ChangelogPath THEN 3
    ELSE 2

\* C11 (as stated in the claim): in a non-dry run the store writes follow the
\* phase order branch creation, per-file writes, changelog write, direct
\* commit or pull request: no write of an earlier phase follows a write of a
\* later phase, and in PR mode nothing is written before the branch is created.
C11_WritesFollowPhaseOrder ==
    ~dry_run =>
        /\ \A i, j \in 1..Len(writes) :
              i < j => PhaseOf(writes[i]) <= PhaseOf(writes[j])
        /\ (~direct_commit /\ writes # <<>>) => writes[1].op = "create_git_ref"

\* C12: in a dry run no mutating store operation is issued: the write log and
\* the pull requests stay empty, no branch is created, and the content of the
\* store is what it was at the start of the run.
C12_DryRunWritesNothing ==
    dry_run =>
        /\ writes = <<>>
        /\ pulls = <<>>
        /\ branches = {BaseBranch}
        /\ \A p \in Paths : ~repo[BranchName][p].present
        /\ \A f \in Files : repo[BaseBranch][SrcPath(f)] = Blob(SourceText)
        /\ repo[BaseBranch][TestPath(1)] = Blob(<<"old tests">>)
        /\ \A f \in Files \ {1} : ~repo[BaseBranch][TestPath(f)].present
        /\ repo[BaseBranch][ChangelogPath] \in {Absent, Blob(DefaultChangelog)}

\* A finished dry run that listed changes for a repository without changelog.
C12_Witness ==
    /\ dry_run
    /\ pc = "done"
    /\ changes_list # <<>>
    /\ ~repo[BaseBranch][ChangelogPath].present

\* C13 (as stated in the claim): in a non-dry direct-commit run no improvement
\* branch is created and every store write is addressed to the base branch.
C13_DirectCommitWritesBaseOnly ==
    (~dry_run /\ direct_commit) =>
        /\ BranchName \notin branches
        /\ \A i \in 1..Len(writes) :
              /\ writes[i].op # "create_git_ref"
              /\ writes[i].branch = BaseBranch

\* C14 (as stated in the claim): a finished non-dry direct-commit run, on a
\* store that accepts writes to existing branches and rejects writes to missing
\* ones, without failed tests, has written the new content of every file with
\* an applicable directive to the base branch.
C14_DirectCommitPublishes ==
    (/\ pc = "done" /\ ~dry_run /\ direct_commit
     /\ store_strict /\ faults_left = MaxFaults
     /\ commit_result # "tests_failed") =>
        \A f \in Files :
           Patchable(f) => repo[BaseBranch][SrcPath(f)] = Blob(NewContent(f))

\* C15 (as stated in the claim): when the tests gate of the direct-commit path
\* fails, no file has been written to the base branch by the run.
C15_FailedTestsLeaveBaseUntouched ==
    commit_result = "tests_failed" =>
        \A i \in 1..Len(writes) :
           ~(writes[i].ok /\ writes[i].branch = BaseBranch)

\* The content writes of the per-file apply loop of run() for file f.
ApplyWrites(f) ==
    {i \in 1..Len(writes) : /\ writes[i].at = "implement"
                            /\ writes[i].path = SrcPath(f)}

\* The content writes of the loop of commit_changes_directly for file f.
CommitWrites(f) ==
    {i \in 1..Len(writes) : /\ writes[i].at = "commit"
                            /\ writes[i].path = SrcPath(f)}

PullCalls == {i \in 1..Len(writes) : writes[i].op = "create_pull"}

C17_SuccessIffOneFileWritten ==
    pc = "done" =>
        /\ commit_result \in {"committed", "failed", "tests_failed",
                              "no_changes", "no_changes_list"}
        /\ commit_result = "committed" <=>
              \E f \in Files : \E i \in CommitWrites(f) :
                 writes[i].ok /\ writes[i].branch = BaseBranch
        /\ changes_list = <<>> => commit_result = "no_changes_list"
        /\ (changes_list # <<>> /\ TotalChanges(changes_list) = 0) =>
              commit_result = "no_changes"
        /\ (commit_result = "failed") =>
              /\ \A f \in ChangedFiles : \A i \in CommitWrites(f) : ~writes[i].ok
              /\ \A i \in 1..Len(changes_list) :
                    \/ CommitWrites(changes_list[i].file_path) # {}
                    \/ ~repo[BaseBranch][SrcPath(changes_list[i].file_path)].present

\* Two files, the write of one failed and the other succeeded: success.
C17_Witness ==
    /\ pc = "done"
    /\ commit_result = "committed"
    /\ Len(changes_list) = 2
    /\ \E f \in ChangedFiles : \E i \in CommitWrites(f) : ~writes[i].ok

(***************************************************************************)
(* Properties of run_tests().                                              *)
(***************************************************************************)
CloneSucceeded == sandbox_env.raise_at \notin {"mkdtemp", "clone"} /\ sandbox_env.clone_rc = 0

\* What run_tests reports when it clones and runs the test command.
SandboxVerdict ==
    /\ test_report.kind = "result"
    /\ test_report.passed <=>
          (CloneSucceeded /\ sandbox_env.raise_at = "none" /\ sandbox_env.exit = 0)
    /\ ~test_report.passed =>
          test_report.output =
             IF sandbox_env.raise_at = "mkdtemp" THEN <<"exception">>
             ELSE IF sandbox_env.raise_at = "clone" THEN <<"exception">>
             ELSE IF sandbox_env.clone_rc # 0 THEN <<"clone stderr">>
             ELSE IF sandbox_env.raise_at = "test" THEN <<"exception">>
             ELSE <<"stdout">> \o sandbox_env.stderr

\* C19 (as stated in the claim): run_tests returns passed = True iff the clone
\* succeeded and the test command exited with status 0; a failed clone, a
\* non-zero exit or an exception gives passed = False with the captured error
\* output; run_tests never raises.
C19_PassedIffCloneAndExitZero ==
    t_pc = "returned" => SandboxVerdict

\* C19 (amended): when the object has no mock_test_run attribute, run_tests
\* returns passed = True iff the clone succeeded and the test command exited
\* with status 0, and otherwise passed = False with the captured error output;
\* when the attribute is set, run_tests returns its value without creating a
\* workspace, cloning or running a command; run_tests never raises.
C19_PassedIffCloneAndExitZeroUnlessHooked ==
    t_pc = "returned" =>
        IF mock_test_run = "unset" THEN SandboxVerdict
        ELSE /\ test_report = Report(mock_test_run = "pass", <<"mock output">>)
             /\ workspace = "none"
             /\ test_cmd = <<>>

\* The clone succeeded and the test command exited with a non-zero status.
C19_Witness ==
    /\ t_pc = "returned"
    /\ mock_test_run = "unset"
    /\ CloneSucceeded
    /\ sandbox_env.raise_at = "none"
    /\ sandbox_env.exit # 0
    /\ test_cmd = <<"python", "-m", "pytest", "test files", "-v">>
    /\ ~test_report.passed

\* C20: when run_tests has returned, no workspace exists: the temporary
\* directory it created has been deleted, after a failed clone, passed tests,
\* failed tests and an exception alike (or none was ever created).
C20_WorkspaceDiscarded ==
    t_pc = "returned" =>
        /\ workspace # "exists"
        /\ (mock_test_run = "unset" /\ sandbox_env.raise_at # "mkdtemp") =>
              workspace = "deleted"

\* The test command raised inside the workspace.
C20_Witness ==
    /\ t_pc = "returned"
    /\ sandbox_env.raise_at = "test"
    /\ sandbox_env.clone_rc = 0
    /\ mock_test_run = "unset"
    /\ workspace = "deleted"

(***************************************************************************)
(* Properties of update_changelog.                                         *)
(***************************************************************************)
\* The updates of the changelog update_changelog sent: the token of each is the
\* document it read.
ChangelogUpdates ==
    {i \in 1..Len(writes) : /\ writes[i].path = ChangelogPath
                            /\ writes[i].op = "update_file"}

HasUnreleased(doc) == \E i \in 1..Len(doc) : doc[i] = "## [Unreleased]"

FirstUnreleased(doc) ==
    CHOOSE i \in 1..Len(doc) :
        /\ doc[i] = "## [Unreleased]"
        /\ \A k \in 1..(i - 1) : doc[k] # "## [Unreleased]"

\* `updated` is `doc` with `section` put in after its first k lines.
SplicedAt(doc, section, k, updated) ==
    updated = SubSeq(doc, 1, k) \o section \o SubSeq(doc, k + 1, Len(doc))

C27_TokenOfTheSnapshotRead ==
    \A i \in 1..Len(writes) :
        writes[i].op = "update_file" =>
            \A f \in Files :
                /\ writes[i].path = SrcPath(f) =>
                      \E k \in 1..Len(changes_list) :
                          /\ changes_list[k].file_path = f
                          /\ changes_list[k].content = writes[i].data
                          /\ changes_list[k].original_content = writes[i].sha
                /\ writes[i].path = TestPath(f) =>
                      SubSeq(writes[i].data, 1, Len(writes[i].sha)) = writes[i].sha

(***************************************************************************)
(* Properties of implement_tests.                                          *)
(***************************************************************************)
\* C24: when a test artifact exists at the derived path, implement_tests
\* returns it marked as existing, with the revision token of the store and
\* with the existing content, a separator comment and the new test bodies, in
\* this order, as content; when none exists it returns a new artifact (not
\* existing, no token) made of the scaffold and the test bodies; and it sends
\* no write to the store.
C24_TestArtifactSynthesis ==
    (s_pc = "returned" /\ TestBodies(s_changes) # <<>>) =>
        LET existing == repo[BaseBranch][TestPath(s_file)]
        IN /\ s_result.kind = "tests"
           /\ existing.present =>
                 /\ s_result.exists
                 /\ s_result.sha = existing.data
                 /\ SubSeq(s_result.content, 1, Len(existing.data)) = existing.data
                 /\ s_result.content = existing.data \o <<"# New tests for changes">>
                                          \o TestBodies(s_changes)
           /\ ~existing.present =>
                 /\ ~s_result.exists
                 /\ s_result.sha = <<>>
                 /\ s_result.content = <<"scaffold">> \o TestBodies(s_changes)
           /\ writes = <<>>

\* implement_tests returned for a file with a test file in the store and a
\* directive list in which one directive has a test and another has none.
C24_Witness ==
    /\ s_pc = "returned"
    /\ repo[BaseBranch][TestPath(s_file)].present
    /\ Len(TestBodies(s_changes)) = 1
    /\ Len(s_changes) = 2
    /\ s_result.exists

(***************************************************************************)
(* Properties of the publication of run(), continued.                      *)
(***************************************************************************)
Lines(doc) == {doc[i] : i \in 1..Len(doc)}

\* The base branch had no changelog when the run began: it has none now, or
\* the default document was created on it.
NoChangelogAtStart ==
    \/ ~repo[BaseBranch][ChangelogPath].present
    \/ \E i \in 1..Len(writes) : /\ writes[i].op = "create_file"
                                 /\ writes[i].path = ChangelogPath
                                 /\ writes[i].branch = BaseBranch
                                 /\ writes[i].ok

\* C22 (as stated in the claim): a non-dry run that began without a changelog
\* and produced at least one change set with an explanation ends (absent
\* store failures in transit) with a changelog on the publication target, the
\* base branch in direct-commit mode and the improvement branch in PR mode,
\* that holds the dated section and the entries of the run.
C22_AbsentChangelogGetsEntries ==
    (/\ pc = "done"
     /\ ~dry_run
     /\ NoChangelogAtStart
     /\ changes_list # <<>>
     /\ faults_left = MaxFaults
     /\ ChangelogBranch \in branches)
    => LET doc == repo[ChangelogBranch][ChangelogPath]
       IN /\ doc.present
          /\ Today \in Lines(doc.data)
          /\ \A i \in 1..Len(changes_list) :
                \A k \in 1..Len(changes_list[i].suggested_changes) :
                   changes_list[i].suggested_changes[k].explanation
                      \in Lines(doc.data)

\* A file whose analysis is an object none of whose directives applies
\* (there is none, or no original snippet occurs in the file).
NothingApplies(f) ==
    /\ task[f] = "collected"
    /\ future[f].kind = "analysis"
    /\ future[f].jtype = "object"
    /\ ~Patchable(f)

\* C23 (as stated in the claim): a file whose analysis has no directives, or
\* none whose original snippet occurs in the file, gets no change set, no
\* store write of its source or its test artifact, no changelog entry, and
\* raises nothing.
C23_InapplicableFileLeavesNoTrace ==
    \A f \in Files :
        NothingApplies(f) =>
            /\ f \notin ChangedFiles
            /\ \A i \in 1..Len(writes) :
                  /\ writes[i].path \notin {SrcPath(f), TestPath(f)}
                  /\ writes[i].path = ChangelogPath
                        => ToString(f) \notin Lines(writes[i].data)
            /\ pc = "raised" => all_analyses[next_analysis].file_path # f

\* The test snippets of the directives the directive loop applies, in order.
RECURSIVE AppliedTestBodies(_, _)
AppliedTestBodies(st, changes) ==
    IF changes = <<>> THEN <<>>
    ELSE LET after == ApplyChange(st, Head(changes))
         IN (IF after.changes_applied > st.changes_applied
             THEN TestBodies(<<Head(changes)>>) ELSE <<>>)
            \o AppliedTestBodies(after, Tail(changes))

TestSnippets == {D_fix.test_code, D_add.test_code}

\* C25 (as stated in the claim): a test artifact sent to the store holds only
\* test snippets of directives that were applied to the file; the snippet of a
\* directive whose original snippet was not found is never written.
C25_OnlyAppliedTestsPublished ==
    \A i \in 1..Len(writes) :
        \A f \in Files :
            writes[i].path = TestPath(f) =>
                Lines(writes[i].data) \cap TestSnippets
                   \subseteq Lines(AppliedTestBodies(
                                 [content |-> SourceText,
                                  original_content |-> SourceText,
                                  changes_applied |-> 0],
                                 future[f].suggested_changes))

\* How often the changelog entry of directive d for file f is in a document.
EntryCount(doc, f, d) ==
    Cardinality({i \in 1..(Len(doc) - 2) : /\ doc[i] = "-"
                                           /\ doc[i+1] = ToString(f)
                                           /\ doc[i+2] = d.explanation})

\* The accepted writes that put a dated section into the changelog.
ChangelogSectionWrites ==
    {i \in 1..Len(writes) : /\ writes[i].path = ChangelogPath
                            /\ writes[i].ok
                            /\ Today \in Lines(writes[i].data)}

\* C28 (as stated in the claim): in one run, in direct-commit and PR mode
\* alike, the changelog is updated at most once, and the explanation of a
\* directive is put into the changelog at most once.
C28_ChangelogUpdatedOnce ==
    /\ Cardinality(ChangelogSectionWrites) <= 1
    /\ \A b \in branches :
          \A f \in Files :
             \A d \in {D_fix, D_add} :
                EntryCount(repo[b][ChangelogPath].data, f, d) <= 1

\* C29 (as stated in the claim): in a PR-mode run every file write to the
\* improvement branch and every pull request from it comes after a successful
\* creation of that branch in the same run.
C29_BranchCreatedBeforeUse ==
    (~dry_run /\ ~direct_commit) =>
        \A i \in 1..Len(writes) :
            (writes[i].branch = BranchName /\ writes[i].op # "create_git_ref")
            => \E j \in 1..(i - 1) : /\ writes[j].op = "create_git_ref"
                                     /\ writes[j].ok

\* commit_changes_directly has evaluated its tests gate.
TestsGateEvaluated ==
    \/ pc = "commit"
    \/ commit_result \in {"tests_failed", "committed", "failed"}

\* C30 (as stated in the claim): whenever commit_changes_directly gates on
\* tests, the branch run_tests clones (self.branch_name) is a branch of the
\* store at that moment.
C30_ClonedBranchExists ==
    TestsGateEvaluated => BranchName \in branches

====
